---- MODULE Spec2Model ----
(***************************************************************************)
(* Model of pkg/ipfs/screener.go: Screener.ScreenResponse and the five     *)
(* filter passes it runs over one IPLDPayload under one StreamFilters.     *)
(*                                                                         *)
(* A Go pointer or map that may be nil is modelled as an option set:       *)
(* Nil == {} and Some(x) == {x}.  A nil slice is the empty sequence.       *)
(***************************************************************************)
EXTENDS Integers, Sequences, FiniteSets, TLC

VARIABLES
    pc,             \* position inside ScreenResponse
    streamFilters,  \* argument: *StreamFilters
    payload,        \* argument: IPLDPayload
    response,       \* local: response := new(ResponsePayload)
    ret,            \* the returned pair (*ResponsePayload, error)
    called,         \* the passes ScreenResponse has called so far
    examined        \* per pass: did a loop body of the pass run for some item

vars == <<pc, streamFilters, payload, response, ret, called, examined>>

\* ------------------------------------------------------------------ bounds
MaxBlock == 2
MaxItems == 2

\* ------------------------------------------------------------------ values
Nil == {}
Some(x) == {x}
Val(o) == CHOOSE x \in o : TRUE

Categories == {"header", "transaction", "receipt", "state", "storage"}

SeqUpTo(S, n) == UNION {[1..k -> S] : k \in 0..n}
Range(s) == {s[i] : i \in 1..Len(s)}

EncodingFailure == "EncodingFailure"

\* rlp.EncodeToBytes(uncle), trx.EncodeRLP(buf), receipt.EncodeRLP(buf):
\* the canonical encoding of the object, or an error and no bytes.
EncodeRLP(obj) ==
    IF obj.encodable
    THEN [bytes |-> <<"rlp", obj.body>>, err |-> Nil]
    ELSE [bytes |-> <<>>, err |-> Some(EncodingFailure)]

\* AddressToKey(common.HexToAddress(addr)): hex decoding is case-insensitive,
\* the key is the hash of the 20 address bytes.
AddressToKey(addr) ==
    CASE addr \in {"0xA", "0xa"} -> "keccak(0A)"
      [] addr = "0xB" -> "keccak(0B)"
      [] OTHER -> "keccak(" \o addr \o ")"

\* HexToKey(store): the hash of the decoded hex bytes.
HexToKey(store) ==
    CASE store \in {"0x1", "0x01"} -> "keccak(01)"
      [] store = "0x2" -> "keccak(02)"
      [] OTHER -> "keccak(" \o store \o ")"

\* keyFilters := the derived key of every requested address, in order
AddressKeys(addrs) == [i \in 1..Len(addrs) |-> AddressToKey(addrs[i])]
StorageKeyFilters(stores) == [i \in 1..Len(stores) |-> HexToKey(stores[i])]

\* new(ResponsePayload): nil slices, nil maps
NewResponsePayload ==
    [HeadersRlp |-> <<>>, UnclesRlp |-> <<>>, TransactionsRlp |-> <<>>,
     ReceiptsRlp |-> <<>>, StateNodesRlp |-> Nil, StorageNodesRlp |-> Nil]

\* ------------------------------------------------------------------ helpers
checkRange_EndStrict(start, end, actual) ==
    IF (end < 0 \/ end >= actual) /\ start <= actual THEN TRUE ELSE FALSE

checkRange(start, end, actual) ==
    IF (end <= 0 \/ end >= actual) /\ start <= actual THEN TRUE ELSE FALSE

passEnabled_IgnoreOff(f, blockNumber) ==
    checkRange(f.StartingBlock, f.EndingBlock, blockNumber)

passEnabled_IgnoreRange(f, blockNumber) ==
    ~f.Off

\* the guard of every pass: !filter.Off && checkRange(Starting, Ending, BlockNumber)
passEnabled(f, blockNumber) ==
    ~f.Off /\ checkRange(f.StartingBlock, f.EndingBlock, blockNumber)

checkTransactions_And(wantedSrc, wantedDst, actualSrc, actualDst) ==
    IF Len(wantedDst) = 0 /\ Len(wantedSrc) = 0 THEN TRUE
    ELSE /\ \E i \in 1..Len(wantedSrc) : wantedSrc[i] = actualSrc
         /\ \E j \in 1..Len(wantedDst) : wantedDst[j] = actualDst

checkTransactions(wantedSrc, wantedDst, actualSrc, actualDst) ==
    IF Len(wantedDst) = 0 /\ Len(wantedSrc) = 0 THEN TRUE
    ELSE IF \E i \in 1..Len(wantedSrc) : wantedSrc[i] = actualSrc THEN TRUE
    ELSE IF \E j \in 1..Len(wantedDst) : wantedDst[j] = actualDst THEN TRUE
    ELSE FALSE

checkReceipts_FirstOnly(wantedTopics, actualTopics) ==
    IF Len(wantedTopics) = 0 THEN TRUE
    ELSE \E j \in 1..Len(actualTopics) : wantedTopics[1] = actualTopics[j]

checkReceipts(wantedTopics, actualTopics) ==
    IF Len(wantedTopics) = 0 THEN TRUE
    ELSE \E i \in 1..Len(wantedTopics) :
            \E j \in 1..Len(actualTopics) : wantedTopics[i] = actualTopics[j]

checkNodeKeys_EmptyNone(wantedKeys, actualKey) ==
    \E i \in 1..Len(wantedKeys) : wantedKeys[i] = actualKey

checkNodeKeys(wantedKeys, actualKey) ==
    IF Len(wantedKeys) = 0 THEN TRUE
    ELSE \E i \in 1..Len(wantedKeys) : wantedKeys[i] = actualKey

\* ------------------------------------------------------------------ passes
\* for _, uncle := range payload.BlockBody.Uncles { encode; append }
RECURSIVE uncleLoop(_, _, _)
uncleLoop(uncles, i, acc) ==
    IF i > Len(uncles) THEN [out |-> acc, err |-> Nil]
    ELSE LET e == EncodeRLP(uncles[i])
         IN IF e.err # Nil THEN [out |-> acc, err |-> e.err]
            ELSE uncleLoop(uncles, i + 1, Append(acc, e.bytes))

filterHeaders_AlwaysUncles(sf, r, p) ==
    IF passEnabled(sf.HeaderFilter, p.BlockNumber)
    THEN LET r1 == [r EXCEPT !.HeadersRlp = Append(@, p.HeaderRLP)]
             l == uncleLoop(p.BlockBody.Uncles, 1, r1.UnclesRlp)
         IN [response |-> [r1 EXCEPT !.UnclesRlp = l.out], err |-> l.err,
             examined |-> Len(p.BlockBody.Uncles) > 0]
    ELSE [response |-> r, err |-> Nil, examined |-> FALSE]

filterHeaders(sf, r, p) ==
    IF passEnabled(sf.HeaderFilter, p.BlockNumber)
    THEN LET r1 == [r EXCEPT !.HeadersRlp = Append(@, p.HeaderRLP)]
         IN IF sf.HeaderFilter.Uncles
            THEN LET l == uncleLoop(p.BlockBody.Uncles, 1, r1.UnclesRlp)
                 IN [response |-> [r1 EXCEPT !.UnclesRlp = l.out], err |-> l.err,
                     examined |-> Len(p.BlockBody.Uncles) > 0]
            ELSE [response |-> r1, err |-> Nil, examined |-> FALSE]
    ELSE [response |-> r, err |-> Nil, examined |-> FALSE]

\* for i, trx := range payload.BlockBody.Transactions { match TrxMetaData[i]; encode; append }
RECURSIVE trxLoop(_, _, _, _)
trxLoop(f, p, i, acc) ==
    IF i > Len(p.BlockBody.Transactions) THEN [out |-> acc, err |-> Nil]
    ELSE IF checkTransactions(f.Src, f.Dst, p.TrxMetaData[i].Src, p.TrxMetaData[i].Dst)
         THEN LET e == EncodeRLP(p.BlockBody.Transactions[i])
              IN IF e.err # Nil THEN [out |-> acc, err |-> e.err]
                 ELSE trxLoop(f, p, i + 1, Append(acc, e.bytes))
         ELSE trxLoop(f, p, i + 1, acc)

filterTransactions(sf, r, p) ==
    IF passEnabled(sf.TrxFilter, p.BlockNumber)
    THEN LET l == trxLoop(sf.TrxFilter, p, 1, r.TransactionsRlp)
         IN [response |-> [r EXCEPT !.TransactionsRlp = l.out], err |-> l.err,
             examined |-> Len(p.BlockBody.Transactions) > 0]
    ELSE [response |-> r, err |-> Nil, examined |-> FALSE]

\* for i, receipt := range payload.Receipts { match ReceiptMetaData[i]; encode; append }
RECURSIVE receiptLoop(_, _, _, _)
receiptLoop(f, p, i, acc) ==
    IF i > Len(p.Receipts) THEN [out |-> acc, err |-> Nil]
    ELSE IF checkReceipts(f.Topic0s, p.ReceiptMetaData[i].Topic0s)
         THEN LET e == EncodeRLP(p.Receipts[i])
              IN IF e.err # Nil THEN [out |-> acc, err |-> e.err]
                 ELSE receiptLoop(f, p, i + 1, Append(acc, e.bytes))
         ELSE receiptLoop(f, p, i + 1, acc)

filerReceipts(sf, r, p) ==
    IF passEnabled(sf.ReceiptFilter, p.BlockNumber)
    THEN LET l == receiptLoop(sf.ReceiptFilter, p, 1, r.ReceiptsRlp)
         IN [response |-> [r EXCEPT !.ReceiptsRlp = l.out], err |-> l.err,
             examined |-> Len(p.Receipts) > 0]
    ELSE [response |-> r, err |-> Nil, examined |-> FALSE]

\* make(map[common.Hash][]byte)
EmptyMap == [k \in {} |-> <<>>]

\* The Go map is ranged over in an unspecified order; every key is written at
\* most once, so the resulting map does not depend on the order.
filterState(sf, r, p) ==
    LET r1 == [r EXCEPT !.StateNodesRlp = Some(EmptyMap)]
    IN IF passEnabled(sf.StateFilter, p.BlockNumber)
       THEN LET keyFilters == AddressKeys(sf.StateFilter.Addresses)
                inc == {key \in DOMAIN p.StateNodes :
                          /\ checkNodeKeys(keyFilters, key)
                          /\ (p.StateNodes[key].Leaf \/ sf.StateFilter.IntermediateNodes)}
            IN [response |-> [r1 EXCEPT !.StateNodesRlp =
                                 Some([key \in inc |-> p.StateNodes[key].Value])],
                err |-> Nil, examined |-> DOMAIN p.StateNodes # {}]
       ELSE [response |-> r1, err |-> Nil, examined |-> FALSE]

\* the inner map built for one account: later list entries overwrite earlier
\* ones that carry the same storage key
storageEntries(storageKeyFilters, storageNodes) ==
    LET hits == {i \in 1..Len(storageNodes) :
                    checkNodeKeys(storageKeyFilters, storageNodes[i].Key)}
        last(k) == CHOOSE i \in hits :
                      /\ storageNodes[i].Key = k
                      /\ \A j \in hits : storageNodes[j].Key = k => j <= i
    IN [k \in {storageNodes[i].Key : i \in hits} |-> storageNodes[last(k)].Value]

\* response.StorageNodesRlp[stateKey] = make(...) is an assignment to an entry
\* of a map nobody allocated when StorageNodesRlp is nil: the Go runtime panics
\* on the first matching state key, whichever the range order is.
filterStorage(sf, r, p) ==
    IF passEnabled(sf.StorageFilter, p.BlockNumber)
    THEN LET stateKeyFilters == AddressKeys(sf.StorageFilter.Addresses)
             storageKeyFilters == StorageKeyFilters(sf.StorageFilter.StorageKeys)
             hit == {stateKey \in DOMAIN p.StorageNodes :
                        checkNodeKeys(stateKeyFilters, stateKey)}
             ex == DOMAIN p.StorageNodes # {}
         IN IF hit = {}
            THEN [response |-> r, err |-> Nil, panic |-> FALSE, examined |-> ex]
            ELSE IF r.StorageNodesRlp = Nil
            THEN [response |-> r, err |-> Nil, panic |-> TRUE, examined |-> ex]
            ELSE LET old == Val(r.StorageNodesRlp)
                     new == [k \in (DOMAIN old) \cup hit |->
                               IF k \in hit
                               THEN storageEntries(storageKeyFilters, p.StorageNodes[k])
                               ELSE old[k]]
                 IN [response |-> [r EXCEPT !.StorageNodesRlp = Some(new)],
                     err |-> Nil, panic |-> FALSE, examined |-> ex]
    ELSE [response |-> r, err |-> Nil, panic |-> FALSE, examined |-> FALSE]

returnErr_Partial(r, err) == [response |-> Some(r), err |-> err]

\* if err != nil { return nil, err }
returnErr(r, err) == [response |-> Nil, err |-> err]

\* return response, nil
returnOk(r) == [response |-> Some(r), err |-> Nil]

\* ------------------------------------------------------------------ inputs
Uncle(name, ok) == [body |-> <<"header", name>>, encodable |-> ok]
Trx(from, to, ok) ==
    [body |-> <<"trx", from, to>>, from |-> from, to |-> to, encodable |-> ok]
Receipt(topics, ok) ==
    [body |-> <<"receipt", topics>>, topic0s |-> topics, encodable |-> ok]
StateNode(key, leaf) == [Leaf |-> leaf, Value |-> <<"node", key, leaf>>]
StorageNode(key, v) == [Key |-> key, Value |-> <<"slot", key, v>>]

UncleSet == {Uncle("u1", TRUE), Uncle("u2", TRUE), Uncle("u3", FALSE)}
TrxSet ==
    {Trx("0xA", "0xC", TRUE), Trx("0xZ", "0xB", TRUE), Trx("0xZ", "0xC", TRUE),
     Trx("0xA", "0xB", TRUE), Trx("0xA", "0xB", FALSE), Trx("0xZ", "0xC", FALSE)}
ReceiptSet ==
    {Receipt(<<"0x2", "0x9">>, TRUE), Receipt(<<"0x3">>, TRUE), Receipt(<<>>, TRUE),
     Receipt(<<"0x2", "0x9">>, FALSE), Receipt(<<"0x3">>, FALSE)}
StateKeys == {"keccak(0A)", "keccak(0B)", "keccak(0F)"}
StateNodeMaps ==
    UNION {{[key \in D |-> StateNode(key, key \in L)] : L \in SUBSET D} :
             D \in SUBSET StateKeys}
StorageNodeSet == {StorageNode("keccak(01)", "x"), StorageNode("keccak(02)", "y")}
StorageNodeMaps ==
    LET lists == SeqUpTo(StorageNodeSet, MaxItems)
    IN  {[k \in {} |-> <<>>]}
        \cup {[k \in {"keccak(0A)"} |-> l] : l \in lists}
        \cup {[k \in {"keccak(0A)", "keccak(0B)"} |->
                 IF k = "keccak(0A)" THEN l ELSE <<StorageNode("keccak(01)", "z")>>] :
                 l \in lists}
        \cup {[k \in {"keccak(0B)"} |-> <<StorageNode("keccak(01)", "z")>>]}

Blocks == 0..MaxBlock
RichRanges == (-1..MaxBlock) \X (-1..MaxBlock)
Ranges == {<<0, 0>>, <<1, 1>>}
SrcLists == {<<>>, <<"0xA">>, <<"0xC", "0xA">>}
DstLists == {<<>>, <<"0xB">>, <<"0xA", "0xB">>}
TopicLists == {<<>>, <<"0x1", "0x2">>, <<"0x9">>}
AddressLists == {<<>>, <<"0xa">>, <<"0xZ", "0xB">>}
StorageKeyLists == {<<>>, <<"0x01">>, <<"0x9", "0x2">>}

HeaderFilters(ranges) ==
    {[Off |-> o, StartingBlock |-> rg[1], EndingBlock |-> rg[2], Uncles |-> u] :
        o \in BOOLEAN, rg \in ranges, u \in BOOLEAN}
TrxFilters(ranges) ==
    {[Off |-> o, StartingBlock |-> rg[1], EndingBlock |-> rg[2], Src |-> s, Dst |-> d] :
        o \in BOOLEAN, rg \in ranges, s \in SrcLists, d \in DstLists}
ReceiptFilters(ranges) ==
    {[Off |-> o, StartingBlock |-> rg[1], EndingBlock |-> rg[2], Topic0s |-> t] :
        o \in BOOLEAN, rg \in ranges, t \in TopicLists}
StateFilters(ranges) ==
    {[Off |-> o, StartingBlock |-> rg[1], EndingBlock |-> rg[2], Addresses |-> a,
      IntermediateNodes |-> n] :
        o \in BOOLEAN, rg \in ranges, a \in AddressLists, n \in BOOLEAN}
StorageFilters(ranges) ==
    {[Off |-> o, StartingBlock |-> rg[1], EndingBlock |-> rg[2], Addresses |-> a,
      StorageKeys |-> k] :
        o \in BOOLEAN, rg \in ranges, a \in AddressLists, k \in StorageKeyLists}

\* a subscription that asks for everything of the categories in `on`
PlainFilters(on) ==
    [HeaderFilter |-> [Off |-> "header" \notin on, StartingBlock |-> 0,
                       EndingBlock |-> 0, Uncles |-> TRUE],
     TrxFilter |-> [Off |-> "transaction" \notin on, StartingBlock |-> 0,
                    EndingBlock |-> 0, Src |-> <<>>, Dst |-> <<>>],
     ReceiptFilter |-> [Off |-> "receipt" \notin on, StartingBlock |-> 0,
                        EndingBlock |-> 0, Topic0s |-> <<>>],
     StateFilter |-> [Off |-> "state" \notin on, StartingBlock |-> 0,
                      EndingBlock |-> 0, Addresses |-> <<>>,
                      IntermediateNodes |-> FALSE],
     StorageFilter |-> [Off |-> "storage" \notin on, StartingBlock |-> 0,
                        EndingBlock |-> 0, Addresses |-> <<>>, StorageKeys |-> <<>>]]

Profiles == {PlainFilters({}), PlainFilters(Categories),
             PlainFilters(Categories \ {"storage"})}

\* the upstream producer derives the metadata arrays from the data arrays,
\* index by index
MkPayload(b, uncles, trxs, receipts, stateNodes, storageNodes) ==
    [BlockNumber |-> b,
     HeaderRLP |-> <<"rlp", <<"header", "block", b>>>>,
     BlockBody |-> [Uncles |-> uncles, Transactions |-> trxs],
     TrxMetaData |-> [i \in 1..Len(trxs) |-> [Src |-> trxs[i].from, Dst |-> trxs[i].to]],
     Receipts |-> receipts,
     ReceiptMetaData |-> [i \in 1..Len(receipts) |-> [Topic0s |-> receipts[i].topic0s]],
     StateNodes |-> stateNodes,
     StorageNodes |-> storageNodes]

PlainUncles == <<Uncle("u1", TRUE)>>
PlainTrxs == <<Trx("0xA", "0xB", TRUE)>>
PlainReceipts == <<Receipt(<<"0x2", "0x9">>, TRUE)>>
PlainStateNodes ==
    [key \in {"keccak(0A)", "keccak(0B)"} |-> StateNode(key, key = "keccak(0A)")]
PlainStorageNodes == [k \in {"keccak(0A)"} |-> <<StorageNode("keccak(01)", "x")>>]

\* ------------------------------------------------------------------ ScreenResponse
\* entry of ScreenResponse(streamFilters, payload), after response := new(ResponsePayload)
Enter(sf, p) ==
    /\ streamFilters = sf
    /\ payload = p
    /\ response = NewResponsePayload
    /\ ret = [response |-> Nil, err |-> Nil]
    /\ pc = "filterHeaders"
    /\ called = {}
    /\ examined = [c \in Categories |-> FALSE]

\* The calls checked: one category's sub-filter and payload part range over
\* all their values while the other categories take a plain profile.
HeaderCalls ==
    \E prof \in Profiles, f \in HeaderFilters(RichRanges), b \in Blocks,
       us \in SeqUpTo(UncleSet, MaxItems) :
        Enter([prof EXCEPT !.HeaderFilter = f],
              MkPayload(b, us, PlainTrxs, PlainReceipts, PlainStateNodes, PlainStorageNodes))
TrxCalls ==
    \E prof \in Profiles, f \in TrxFilters(Ranges), b \in Blocks,
       ts \in SeqUpTo(TrxSet, MaxItems) :
        Enter([prof EXCEPT !.TrxFilter = f],
              MkPayload(b, PlainUncles, ts, PlainReceipts, PlainStateNodes, PlainStorageNodes))
ReceiptCalls ==
    \E prof \in Profiles, f \in ReceiptFilters(Ranges), b \in Blocks,
       rs \in SeqUpTo(ReceiptSet, MaxItems) :
        Enter([prof EXCEPT !.ReceiptFilter = f],
              MkPayload(b, PlainUncles, PlainTrxs, rs, PlainStateNodes, PlainStorageNodes))
StateCalls ==
    \E prof \in Profiles, f \in StateFilters(Ranges), b \in Blocks,
       sn \in StateNodeMaps :
        Enter([prof EXCEPT !.StateFilter = f],
              MkPayload(b, PlainUncles, PlainTrxs, PlainReceipts, sn, PlainStorageNodes))
StorageCalls ==
    \E prof \in Profiles, f \in StorageFilters(Ranges), b \in Blocks,
       st \in StorageNodeMaps :
        Enter([prof EXCEPT !.StorageFilter = f],
              MkPayload(b, PlainUncles, PlainTrxs, PlainReceipts, PlainStateNodes, st))

Init == HeaderCalls \/ TrxCalls \/ ReceiptCalls \/ StateCalls \/ StorageCalls

\* one pass that cannot panic, with the caller's error check
Step(here, next, cat, res) ==
    /\ pc = here
    /\ response' = res.response
    /\ called' = called \cup {cat}
    /\ examined' = [examined EXCEPT ![cat] = res.examined]
    /\ IF res.err # Nil
       THEN pc' = "done" /\ ret' = returnErr(res.response, res.err)
       ELSE pc' = next /\ ret' = ret
    /\ UNCHANGED <<streamFilters, payload>>

FilterHeaders ==
    /\ pc # "done"
    /\ Step("filterHeaders", "filterTransactions", "header",
         filterHeaders(streamFilters, response, payload))

FilterTransactions ==
    /\ pc # "done"
    /\ Step("filterTransactions", "filerReceipts", "transaction",
         filterTransactions(streamFilters, response, payload))

FilerReceipts ==
    /\ pc # "done"
    /\ Step("filerReceipts", "filterState", "receipt",
         filerReceipts(streamFilters, response, payload))

FilterState ==
    /\ pc # "done"
    /\ Step("filterState", "filterStorage", "state",
         filterState(streamFilters, response, payload))

FilterStorage ==
    /\ pc = "filterStorage"
    /\ LET res == filterStorage(streamFilters, response, payload)
       IN /\ response' = res.response
          /\ called' = called \cup {"storage"}
          /\ examined' = [examined EXCEPT !["storage"] = res.examined]
          /\ IF res.panic
             THEN pc' = "panic" /\ ret' = ret
             ELSE IF res.err # Nil
             THEN pc' = "done" /\ ret' = returnErr(res.response, res.err)
             ELSE pc' = "return" /\ ret' = ret
    /\ UNCHANGED <<streamFilters, payload>>

Return ==
    /\ pc = "return"
    /\ ret' = returnOk(response)
    /\ pc' = "done"
    /\ UNCHANGED <<streamFilters, payload, response, called, examined>>

Next ==
    \/ FilterHeaders
    \/ FilterTransactions
    \/ FilerReceipts
    \/ FilterState
    \/ FilterStorage
    \/ Return

Spec == Init /\ [][Next]_vars

\* ------------------------------------------------------------------ properties
\* The statements below are written from the specification's wording, with
\* sets and comprehensions, not with the operators that model the code.

Canonical(obj) == <<"rlp", obj.body>>

\* the range predicate as the specification words it
InRange(f) ==
    /\ payload.BlockNumber >= f.StartingBlock
    /\ (f.EndingBlock <= 0 \/ payload.BlockNumber <= f.EndingBlock)

\* out of range as claim C9 words it
OutOfRange(f) ==
    \/ payload.BlockNumber < f.StartingBlock
    \/ (f.EndingBlock > 0 /\ payload.BlockNumber > f.EndingBlock)

Success == pc = "done" /\ ret.err = Nil /\ ret.response # Nil
Returned == Val(ret.response)

Indices(seq) == [i \in 1..Len(seq) |-> i]
Pick(seq, Want(_)) ==
    LET idx == SelectSeq(Indices(seq), Want)
    IN [k \in 1..Len(idx) |-> Canonical(seq[idx[k]])]

TrxMatches(i) ==
    LET f == streamFilters.TrxFilter
        m == payload.TrxMetaData[i]
    IN \/ (Range(f.Src) = {} /\ Range(f.Dst) = {})
       \/ m.Src \in Range(f.Src)
       \/ m.Dst \in Range(f.Dst)
ExpectedTrx == Pick(payload.BlockBody.Transactions, TrxMatches)

ReceiptMatches(i) ==
    LET f == streamFilters.ReceiptFilter
    IN \/ Range(f.Topic0s) = {}
       \/ Range(payload.ReceiptMetaData[i].Topic0s) \cap Range(f.Topic0s) # {}
ExpectedReceipts == Pick(payload.Receipts, ReceiptMatches)

AllUncles(i) == TRUE
ExpectedUncles == Pick(payload.BlockBody.Uncles, AllUncles)

KeyWanted(addresses, key) ==
    \/ Range(addresses) = {}
    \/ \E a \in Range(addresses) : key = AddressToKey(a)
StorageKeyWanted(stores, key) ==
    \/ Range(stores) = {}
    \/ \E st \in Range(stores) : key = HexToKey(st)

\* the encoding failure the call meets first, if any
HeaderFails ==
    /\ ~streamFilters.HeaderFilter.Off /\ InRange(streamFilters.HeaderFilter)
    /\ streamFilters.HeaderFilter.Uncles
    /\ \E i \in 1..Len(payload.BlockBody.Uncles) : ~payload.BlockBody.Uncles[i].encodable
TrxFails ==
    /\ ~streamFilters.TrxFilter.Off /\ InRange(streamFilters.TrxFilter)
    /\ \E i \in 1..Len(payload.BlockBody.Transactions) :
          TrxMatches(i) /\ ~payload.BlockBody.Transactions[i].encodable
ReceiptFails ==
    /\ ~streamFilters.ReceiptFilter.Off /\ InRange(streamFilters.ReceiptFilter)
    /\ \E i \in 1..Len(payload.Receipts) :
          ReceiptMatches(i) /\ ~payload.Receipts[i].encodable

\* C1: after a successful ScreenResponse, a category whose sub-filter has
\* off=true is empty in the response, whatever the sub-filter's other fields
\* and the payload hold: no header and no uncle, no transaction, no receipt, a
\* state-node mapping that is present with no entry, a storage-node mapping
\* that is absent or has no entry.
C1_OffCategoryEmpty ==
    Success =>
        /\ streamFilters.HeaderFilter.Off =>
              Returned.HeadersRlp = <<>> /\ Returned.UnclesRlp = <<>>
        /\ streamFilters.TrxFilter.Off => Returned.TransactionsRlp = <<>>
        /\ streamFilters.ReceiptFilter.Off => Returned.ReceiptsRlp = <<>>
        /\ streamFilters.StateFilter.Off =>
              /\ Returned.StateNodesRlp # Nil
              /\ DOMAIN Val(Returned.StateNodesRlp) = {}
        /\ streamFilters.StorageFilter.Off =>
              \/ Returned.StorageNodesRlp = Nil
              \/ DOMAIN Val(Returned.StorageNodesRlp) = {}

C1_Witness ==
    /\ Success
    /\ streamFilters.TrxFilter.Off
    /\ InRange(streamFilters.TrxFilter)
    /\ streamFilters.TrxFilter.Src # <<>>
    /\ \E i \in 1..Len(payload.BlockBody.Transactions) : TrxMatches(i)
    /\ Returned.TransactionsRlp = <<>>

\* C2: with the transaction filter enabled and the block in range, the
\* transactions of the response are, in payload order and once each, the
\* encodings of exactly the transactions whose aligned metadata matches: all
\* of them when both requested sets are empty, otherwise those whose src is a
\* requested source or whose dst is a requested destination.
C2_TransactionsSelected ==
    (~streamFilters.TrxFilter.Off /\ InRange(streamFilters.TrxFilter)) =>
        /\ ("transaction" \in called /\ ~HeaderFails /\ ~TrxFails) =>
              response.TransactionsRlp = ExpectedTrx
        /\ Success => Returned.TransactionsRlp = ExpectedTrx

C2_Witness ==
    /\ Success
    /\ ~streamFilters.TrxFilter.Off /\ InRange(streamFilters.TrxFilter)
    /\ streamFilters.TrxFilter.Src = <<"0xC", "0xA">>
    /\ streamFilters.TrxFilter.Dst = <<"0xA", "0xB">>
    /\ Len(payload.BlockBody.Transactions) = 2
    /\ payload.TrxMetaData[1] = [Src |-> "0xZ", Dst |-> "0xC"]
    /\ payload.TrxMetaData[2] = [Src |-> "0xZ", Dst |-> "0xB"]
    /\ Len(Returned.TransactionsRlp) = 1

\* C3: with the state filter enabled and the block in range, a state-trie
\* node is in the response's state-node mapping, under its trie key and with
\* its raw bytes as value, exactly when its key matches (no address requested,
\* or the key is the derived key of a requested address) and it is a leaf or
\* includeIntermediateNodes is true.
StateNodesAsClaimed(m) ==
    /\ m # Nil
    /\ \A key \in StateKeys :
          key \in DOMAIN Val(m) <=>
             /\ key \in DOMAIN payload.StateNodes
             /\ KeyWanted(streamFilters.StateFilter.Addresses, key)
             /\ (payload.StateNodes[key].Leaf \/ streamFilters.StateFilter.IntermediateNodes)
    /\ DOMAIN Val(m) \subseteq StateKeys
    /\ \A key \in DOMAIN Val(m) : Val(m)[key] = payload.StateNodes[key].Value

C3_StateNodesSelected ==
    (~streamFilters.StateFilter.Off /\ InRange(streamFilters.StateFilter)) =>
        /\ "state" \in called => StateNodesAsClaimed(response.StateNodesRlp)
        /\ Success => StateNodesAsClaimed(Returned.StateNodesRlp)

C3_Witness ==
    /\ Success
    /\ ~streamFilters.StateFilter.Off /\ InRange(streamFilters.StateFilter)
    /\ streamFilters.StateFilter.Addresses = <<"0xZ", "0xB">>
    /\ ~streamFilters.StateFilter.IntermediateNodes
    /\ DOMAIN payload.StateNodes = StateKeys
    /\ ~payload.StateNodes["keccak(0A)"].Leaf
    /\ payload.StateNodes["keccak(0B)"].Leaf
    /\ DOMAIN Val(Returned.StateNodesRlp) = {"keccak(0B)"}

\* C4: with the storage filter enabled and the block in range, every account
\* state key of payload.storageNodes that matches the state-key filter gets an
\* entry in the response's storage mapping, holding exactly that account's
\* storage nodes whose key matches the storage-key filter (raw bytes as
\* value); state keys that do not match get no entry.
StorageAsClaimed(m) ==
    \A stateKey \in DOMAIN payload.StorageNodes :
        IF KeyWanted(streamFilters.StorageFilter.Addresses, stateKey)
        THEN /\ m # Nil
             /\ stateKey \in DOMAIN Val(m)
             /\ LET nodes == payload.StorageNodes[stateKey]
                    want == {i \in 1..Len(nodes) :
                               StorageKeyWanted(streamFilters.StorageFilter.StorageKeys,
                                                nodes[i].Key)}
                IN /\ DOMAIN Val(m)[stateKey] = {nodes[i].Key : i \in want}
                   /\ \A k \in DOMAIN Val(m)[stateKey] :
                         \E i \in want : nodes[i].Key = k /\ nodes[i].Value = Val(m)[stateKey][k]
        ELSE m = Nil \/ stateKey \notin DOMAIN Val(m)

C4_StorageNodesSelected ==
    (/\ ~streamFilters.StorageFilter.Off
     /\ InRange(streamFilters.StorageFilter)
     /\ "storage" \in called) => StorageAsClaimed(response.StorageNodesRlp)

\* C5: an encoding failure of a selected uncle, matching transaction or
\* matching receipt stops the call at the failing pass, which returns that
\* error and no response; whatever the call returns, it is a response or an
\* error and never both, and no pass runs after the failing one.
PassesThrough(cat) ==
    CASE cat = "header" -> {"header"}
      [] cat = "transaction" -> {"header", "transaction"}
      [] cat = "receipt" -> {"header", "transaction", "receipt"}

StoppedAt(cat) ==
    /\ pc = "done"
    /\ ret = [response |-> Nil, err |-> Some(EncodingFailure)]
    /\ called = PassesThrough(cat)

C5_EncodingFailureAborts ==
    /\ (HeaderFails /\ "header" \in called) => StoppedAt("header")
    /\ (~HeaderFails /\ TrxFails /\ "transaction" \in called) => StoppedAt("transaction")
    /\ (~HeaderFails /\ ~TrxFails /\ ReceiptFails /\ "receipt" \in called) =>
          StoppedAt("receipt")
    /\ pc = "done" => ((ret.response = Nil) # (ret.err = Nil))
    /\ pc # "done" => (ret.response = Nil /\ ret.err = Nil)

C5_Witness ==
    /\ ~HeaderFails /\ TrxFails
    /\ StoppedAt("transaction")
    /\ response.HeadersRlp # <<>>
    /\ response.TransactionsRlp # <<>>
    /\ ~streamFilters.ReceiptFilter.Off /\ ~streamFilters.StorageFilter.Off

\* C6: encoding failure is the only failure mode: when every uncle,
\* transaction and receipt of the payload encodes, the call never aborts and
\* ends by returning a response and no error.
AllEncodable ==
    /\ \A i \in 1..Len(payload.BlockBody.Uncles) : payload.BlockBody.Uncles[i].encodable
    /\ \A i \in 1..Len(payload.BlockBody.Transactions) :
          payload.BlockBody.Transactions[i].encodable
    /\ \A i \in 1..Len(payload.Receipts) : payload.Receipts[i].encodable

C6_OnlyEncodingFails ==
    AllEncodable =>
        /\ pc \in {"filterHeaders", "filterTransactions", "filerReceipts", "filterState",
                   "filterStorage", "return", "done"}
        /\ pc = "done" => (ret.err = Nil /\ ret.response # Nil)

\* C7: with the receipt filter enabled and the block in range, the receipts
\* of the response are, in payload order and once each, the encodings of
\* exactly the receipts whose aligned topic0s match: all of them when no topic
\* is requested, otherwise those sharing a topic with the requested set.
C7_ReceiptsSelected ==
    (~streamFilters.ReceiptFilter.Off /\ InRange(streamFilters.ReceiptFilter)) =>
        /\ ("receipt" \in called /\ ~HeaderFails /\ ~TrxFails /\ ~ReceiptFails) =>
              response.ReceiptsRlp = ExpectedReceipts
        /\ Success => Returned.ReceiptsRlp = ExpectedReceipts

C7_Witness ==
    /\ Success
    /\ ~streamFilters.ReceiptFilter.Off /\ InRange(streamFilters.ReceiptFilter)
    /\ streamFilters.ReceiptFilter.Topic0s = <<"0x1", "0x2">>
    /\ Len(payload.Receipts) = 2
    /\ payload.ReceiptMetaData[1].Topic0s = <<"0x3">>
    /\ payload.ReceiptMetaData[2].Topic0s = <<"0x2", "0x9">>
    /\ Returned.ReceiptsRlp = <<Canonical(payload.Receipts[2])>>

\* C8: with the header filter enabled and the block in range, the headers of
\* the response are the one-element list of the payload's raw header RLP, and
\* the uncles are one encoding per payload uncle in payload order when
\* includeUncles is true, none when it is false.
HeadersAsClaimed(r) ==
    /\ r.HeadersRlp = <<payload.HeaderRLP>>
    /\ r.UnclesRlp = IF streamFilters.HeaderFilter.Uncles THEN ExpectedUncles ELSE <<>>

C8_HeaderAndUncles ==
    (~streamFilters.HeaderFilter.Off /\ InRange(streamFilters.HeaderFilter)) =>
        /\ ("header" \in called /\ ~HeaderFails) => HeadersAsClaimed(response)
        /\ Success => HeadersAsClaimed(Returned)

C8_Witness ==
    /\ Success
    /\ ~streamFilters.HeaderFilter.Off /\ InRange(streamFilters.HeaderFilter)
    /\ ~streamFilters.HeaderFilter.Uncles
    /\ Len(payload.BlockBody.Uncles) = 2
    /\ Returned.HeadersRlp = <<payload.HeaderRLP>>
    /\ Returned.UnclesRlp = <<>>

\* C9: the range predicate gates every pass: a category whose sub-filter the
\* block is out of range for stays empty in the response, whatever the match
\* sets and the payload hold, and none of its items is examined or encoded;
\* the state-node mapping is still present and empty once the state pass ran.
CategoriesGated(r) ==
    /\ OutOfRange(streamFilters.HeaderFilter) => (r.HeadersRlp = <<>> /\ r.UnclesRlp = <<>>)
    /\ OutOfRange(streamFilters.TrxFilter) => r.TransactionsRlp = <<>>
    /\ OutOfRange(streamFilters.ReceiptFilter) => r.ReceiptsRlp = <<>>
    /\ OutOfRange(streamFilters.StateFilter) =>
          (r.StateNodesRlp = Nil \/ DOMAIN Val(r.StateNodesRlp) = {})
    /\ OutOfRange(streamFilters.StorageFilter) =>
          (r.StorageNodesRlp = Nil \/ DOMAIN Val(r.StorageNodesRlp) = {})

FilterOf(cat) ==
    CASE cat = "header" -> streamFilters.HeaderFilter
      [] cat = "transaction" -> streamFilters.TrxFilter
      [] cat = "receipt" -> streamFilters.ReceiptFilter
      [] cat = "state" -> streamFilters.StateFilter
      [] cat = "storage" -> streamFilters.StorageFilter

C9_RangeGatesEveryPass ==
    /\ CategoriesGated(response)
    /\ Success => CategoriesGated(Returned)
    /\ \A cat \in Categories : OutOfRange(FilterOf(cat)) => ~examined[cat]
    /\ (OutOfRange(streamFilters.StateFilter) /\ "state" \in called) =>
          (response.StateNodesRlp # Nil /\ DOMAIN Val(response.StateNodesRlp) = {})
    /\ (OutOfRange(streamFilters.HeaderFilter) /\ called = {"header"}) => pc # "done"
    /\ (/\ OutOfRange(streamFilters.TrxFilter) /\ ~HeaderFails
        /\ called = {"header", "transaction"}) => pc # "done"
    /\ (/\ OutOfRange(streamFilters.ReceiptFilter) /\ ~HeaderFails /\ ~TrxFails
        /\ called = {"header", "transaction", "receipt"}) => pc # "done"

C9_Witness ==
    /\ Success
    /\ ~streamFilters.TrxFilter.Off
    /\ OutOfRange(streamFilters.TrxFilter)
    /\ streamFilters.TrxFilter.Src = <<>> /\ streamFilters.TrxFilter.Dst = <<>>
    /\ \E i \in 1..Len(payload.BlockBody.Transactions) :
          ~payload.BlockBody.Transactions[i].encodable
    /\ "transaction" \in called
    /\ Returned.TransactionsRlp = <<>>
    /\ Returned.StateNodesRlp # Nil

\* C10: checkRange(start, end, actual) is true exactly when actual >= start
\* and (end <= 0 or actual <= end): on the triple every sub-filter hands it,
\* on the specification's five examples, and as the header pass shows it (a
\* header filter that is not off returns the header exactly for such blocks).
C10_CheckRange ==
    /\ \A cat \in Categories :
          checkRange(FilterOf(cat).StartingBlock, FilterOf(cat).EndingBlock,
                     payload.BlockNumber) <=> InRange(FilterOf(cat))
    /\ \A n \in Blocks : checkRange(0, 0, n)
    /\ checkRange(100, 0, 500)
    /\ ~checkRange(100, 200, 50)
    /\ checkRange(100, 200, 150)
    /\ ~checkRange(100, 200, 300)
    /\ (~streamFilters.HeaderFilter.Off /\ "header" \in called) =>
          (response.HeadersRlp # <<>> <=> InRange(streamFilters.HeaderFilter))

C10_Witness ==
    /\ "header" \in called
    /\ ~streamFilters.HeaderFilter.Off
    /\ streamFilters.HeaderFilter.StartingBlock = 1
    /\ streamFilters.HeaderFilter.EndingBlock = 0
    /\ payload.BlockNumber = 2
    /\ response.HeadersRlp # <<>>

====
